---- MODULE Spec2Model ----
(***************************************************************************)
(* State-machine model of the lua-lolhtml binding (src/lolhtml.c): the     *)
(* Lua <-> lol-html bridge.  The native engine (lol-html) is external;      *)
(* it is modelled only through the calls the bridge makes into it and the  *)
(* callbacks it makes into the bridge, with its status codes chosen        *)
(* nondeterministically.  One documented engine rule is kept: a handler    *)
(* that returns LOL_HTML_STOP ends the running write/end with a failure    *)
(* status.                                                                 *)
(***************************************************************************)
EXTENDS Integers, Sequences, FiniteSets, TLC

\* ------------------------------------------------------------------ bounds
MaxHandles == 2      \* transient handles allocated by dispatches in one run
MaxDepth == 4        \* nesting depth of native calls and callbacks
MaxRegs == 1         \* add_*_content_handlers calls in one run
MaxIters == 1        \* attribute iterators created in one run
MaxSink == 1         \* sink invocations in one run

\* ------------------------------------------------------- program constants
LOL_HTML_CONTINUE == 0
LOL_HTML_STOP == 1
REWRITER_CALLBACK_INDEX == 1
REWRITER_BUILDER_INDEX == 2

\* ------------------------------------------------------------ value spaces
Sessions == {"s1"}
Builders == {"b1"}
Selectors == {"sel1"}
Threads == {"main", "co"}

\* Lua values, as far as the bridge can tell them apart: lua_type, whether
\* lua_tointegerx converts it, the integer it converts to, and an identity.
LuaVal(t, isint, n, s) == [t |-> t, isint |-> isint, n |-> n, s |-> s]
Nil == LuaVal("nil", FALSE, 0, "")
Num(k) == LuaVal("number", TRUE, k, "")
Str(s) == LuaVal("string", FALSE, 0, s)
Func(f) == LuaVal("function", FALSE, 0, f)

\* values a content handler may return
RetVals ==
    { Nil, Num(LOL_HTML_CONTINUE), Num(LOL_HTML_STOP), Num(2),
      LuaVal("number", FALSE, 0, "0.5"),
      LuaVal("boolean", FALSE, 0, "true"),
      Str("1"),
      LuaVal("table", FALSE, 0, "t") }

\* messages produced by the bridge itself
MsgPastLifetime == Str("attempt to use a value past its lifetime")
MsgBadType == Str("bad argument (type expected)")
MsgInvalidReturn == Str("invalid content handler return")
MsgBroken == Str("broken rewriter")
MsgUnknown == Str("unknown error")
MsgEngine == Str("engine error")
MsgNotCallable == Str("attempt to call a non-function value")

\* values a handler or sink may raise with error()
ErrVals == { Nil, Str("boom"), MsgPastLifetime }

\* handler-table fields and the metatable name of the handle each one gets
DocFields == {"doctype_handler", "comment_handler", "text_handler", "doc_end_handler"}
ElemFields == {"element_handler", "comment_handler", "text_handler"}
Fields == DocFields \cup ElemFields
Kinds == {"doctype", "comment", "text_chunk", "doc_end", "element"}

VARIABLES
    bstate,      \* builder userdata: "none" | "alive" | "freed" (its __gc has run)
    regs,        \* registrations made by add_*_content_handlers, in call order
    rewriter,    \* lua_rewriter_t.rewriter: "unbuilt" | "live" | "NULL"
    sL,          \* lua_rewriter_t.L
    sRegs,       \* registrations the engine took over at lol_html_rewriter_build
    sSink,       \* the sink kept in the session's uservalue table
    sBuilder,    \* the builder kept in the session's uservalue table
    collected,   \* sessions whose userdata was garbage collected
    freed,       \* lol_html_rewriter_free calls that reached the session's engine
    freeNull,    \* lol_html_rewriter_free(NULL) calls made for the session
    stack,       \* nesting of running native calls and callbacks, bottom first
    handles,     \* transient handle userdata, in allocation order
    iters,       \* attribute iterator userdata, in allocation order
    sinkCalls,   \* sink invocations so far
    sunk,        \* per sink invocation: the engine's chunk and what the sink was called with
    lastError,   \* the engine's one-shot last-error slot
    uv,          \* each builder's uservalue table (array part)
    weakreg,     \* the weak registry table (array part): per slot an object or "nil"
    refs,        \* the slot luaL_ref gave each object: a builder's uv.ref, a session's reg_idx
    held,        \* the builders, sessions and selectors the host program still refers to
    tobefnz,     \* unreachable objects whose __gc is pending, in the order it will run
    dead,        \* coroutines the collector has freed
    sels,        \* selector userdata: made, collected, lol_html_selector_free calls
    ret          \* what the last finished bridge call gave the host

vars == << bstate, regs, rewriter, sL, sRegs, sSink, sBuilder, collected, freed, freeNull,
           stack, handles, iters, sinkCalls, sunk, lastError, uv,
           weakreg, refs, held, tobefnz, dead, sels, ret >>

\* the state of the host's collector and of the weak registry
gcvars == << weakreg, refs, held, tobefnz, dead, sels >>

\* What a finished bridge call gave its caller.  op: the call; on: the session
\* it was made on (for an accessor the metatable name it asks for), h: the
\* handle or iterator it was made on; res: "self" (the object itself), "value" (a plain
\* result), "fail" (the pair nil, val) or "raise" (a Lua error val unwinding
\* out of the call); native: the native calls the call itself issued; cause
\* and arg: for write/close and for a dispatch, what the handler did; left:
\* for a dispatch, how many values it left on the Lua stack.
Ret(op, on, h, res, val, native, cause, arg) ==
    [op |-> op, on |-> on, h |-> h, res |-> res, val |-> val, native |-> native,
     cause |-> cause, arg |-> arg, left |-> 0, order |-> << >>]
NoRet == Ret("none", "", 0, "none", Nil, { }, "none", Nil)

\* ------------------------------------------------------------- host inputs
\* handler tables a program may pass to add_document_content_handlers
DocTable(dt, cm, tx, de) ==
    [f \in DocFields |->
        CASE f = "doctype_handler" -> dt
          [] f = "comment_handler" -> cm
          [] f = "text_handler" -> tx
          [] OTHER -> de]
DocTables ==
    { DocTable(Nil, Nil, Nil, Nil),
      DocTable(Nil, Func("f1"), Nil, Nil),
      DocTable(Str("not callable"), LuaVal("table", FALSE, 0, "callable"), Nil, Nil) }

\* handler tables a program may pass to add_element_content_handlers
ElemTable(el, cm, tx) ==
    [f \in ElemFields |->
        CASE f = "element_handler" -> el
          [] f = "comment_handler" -> cm
          [] OTHER -> tx]
ElemTables ==
    { ElemTable(Func("f1"), Nil, Nil) }

\* the metatable name do_document_content_callback is given for each field
KindOf(field) ==
    CASE field = "doctype_handler" -> "doctype"
      [] field = "comment_handler" -> "comment"
      [] field = "text_handler" -> "text_chunk"
      [] field = "doc_end_handler" -> "doc_end"
      [] OTHER -> "element"

\* ------------------------------------------------------------ registration
NullHandler == [null |-> TRUE, L |-> "main", builder_index |-> 0, callback_index |-> 0]

create_handler_Always(L, b, tbl, field, uvlen) ==
    [null |-> FALSE, L |-> L, builder_index |-> refs[b], callback_index |-> uvlen + 1]

\* create_handler: a handler_data_t for a field holding a function, NULL for
\* anything else.  builder_index is the integer kept under "ref" in the
\* builder's uservalue table; uvlen is the length of that table: the callback
\* is luaL_ref'd at uvlen + 1 and the handler data at uvlen + 2.
create_handler(L, b, tbl, field, uvlen) ==
    IF tbl[field].t = "function"
    THEN [null |-> FALSE, L |-> L, builder_index |-> refs[b], callback_index |-> uvlen + 1]
    ELSE NullHandler

\* the objects create_handler anchors in the builder's uservalue table
Anchored(tbl, field, hd) ==
    IF hd.null THEN << >>
    ELSE << [what |-> "callback", val |-> tbl[field]],
            [what |-> "handler_data", val |-> Str(field)] >>

RECURSIVE CreateAll(_, _, _, _, _)
\* create_handler applied to the fields in the order the caller lists them:
\* the function from field to handler_data_t, and the grown uservalue table
CreateAll(L, b, tbl, order, uvt) ==
    IF order = << >> THEN [args |-> << >>, uv |-> uvt]
    ELSE LET hd == create_handler(L, b, tbl, Head(order), Len(uvt))
             rest == CreateAll(L, b, tbl, Tail(order), uvt \o Anchored(tbl, Head(order), hd))
         IN [args |-> << hd >> \o rest.args, uv |-> rest.uv]

DocOrder == << "doctype_handler", "comment_handler", "text_handler", "doc_end_handler" >>
ElemOrder == << "comment_handler", "text_handler", "element_handler" >>

ArgsOf(order, made) ==
    [f \in { order[i] : i \in 1..Len(order) } |->
        made[CHOOSE i \in 1..Len(order) : order[i] = f]]

\* -------------------------------------------------------------- the engine
push_last_error_Generic(slot) == MsgUnknown

\* push_last_error: lol_html_take_last_error empties the slot; the message is
\* the slot's text, or "unknown error" when the slot was empty
push_last_error(slot) == IF slot = Nil THEN MsgUnknown ELSE slot

\* what a failing native call may leave in the last-error slot
ErrSlots == { MsgEngine, Nil }

\* ---------------------------------------------------------------- contexts
Top == stack[Len(stack)]

\* host code is running: the main program, or a handler or sink body
HostCtx ==
    \/ stack = << >>
    \/ stack # << >> /\ Top.type \in {"handler", "sink"} /\ Top.phase = "run"

\* the thread host code is running on: any at top level, else the thread the
\* running callback was invoked on
HostThreads == IF stack = << >> THEN Threads ELSE { Top.L }

Frame(type, op, s, L, h, reg, field) ==
    [type |-> type, op |-> op, s |-> s, L |-> L, h |-> h, reg |-> reg, field |-> field,
     errs |-> << >>, stopped |-> FALSE, cause |-> "none", raised |-> Nil,
     phase |-> "run", prc |-> "ok", rv |-> Nil, ud |-> "", callee |-> Nil]

\* ---------------------------------------------------------- weak registry
\* the borders of the array t: lua_rawlen may return any of them
Borders(t) ==
    { n \in 0..Len(t) : (n = 0 \/ t[n] # "nil") /\ (n = Len(t) \/ t[n + 1] = "nil") }

RECURSIVE Trim(_)
\* an array without its trailing empty slots
Trim(t) == IF t # << >> /\ t[Len(t)] = "nil" THEN Trim(SubSeq(t, 1, Len(t) - 1)) ELSE t

\* luaL_ref(L, t) on a table whose free list is empty (luaL_unref is never
\* called): the slot after a border of t
luaL_ref(t) == { n + 1 : n \in Borders(t) }

\* t[k] = o
RawSet(t, k, o) == IF k = Len(t) + 1 THEN Append(t, o) ELSE [t EXCEPT ![k] = o]

\* lua_rawgeti(L, t, k)
RawGet(t, k) == IF k \in 1..Len(t) THEN t[k] ELSE "nil"

\* --------------------------------------------------------------- builders
\* rewriter_builder_new
rewriter_builder_new(b) ==
    /\ stack = << >>
    /\ bstate[b] = "none"
    /\ bstate' = [bstate EXCEPT ![b] = "alive"]
    /\ uv' = [uv EXCEPT ![b] = << >>]
    /\ \E builder_ref \in luaL_ref(weakreg) :
          /\ weakreg' = RawSet(weakreg, builder_ref, b)
          /\ refs' = [refs EXCEPT ![b] = builder_ref]
    /\ held' = held \cup {b}
    /\ UNCHANGED << tobefnz, dead, sels >>
    /\ ret' = Ret("new_rewriter_builder", "", 0, "value", Nil, {"builder_new"}, "none", Nil)
    /\ UNCHANGED << regs, rewriter, sL, sRegs, sSink, sBuilder, collected, freed, freeNull,
                    stack, handles, iters, sinkCalls, sunk, lastError >>

\* rewriter_builder_add_document_content_handlers
rewriter_builder_add_document_content_handlers(b, L, tbl) ==
    /\ stack = << >>
    /\ bstate[b] = "alive"
    /\ b \in held
    /\ L \notin dead
    /\ LET made == CreateAll(L, b, tbl, DocOrder, uv[b])
       IN /\ regs' = Append(regs, [b |-> b, scope |-> "doc", sel |-> "", table |-> tbl,
                                   args |-> ArgsOf(DocOrder, made.args),
                                   accepted |-> TRUE])
          /\ uv' = [uv EXCEPT ![b] = made.uv]
    /\ ret' = Ret("add_document_content_handlers", "", 0, "self", Nil,
                  {"add_document_content_handlers"}, "none", Nil)
    /\ UNCHANGED << bstate, rewriter, sL, sRegs, sSink, sBuilder, collected, freed, freeNull,
                    stack, handles, iters, sinkCalls, sunk, lastError >>
    /\ UNCHANGED gcvars

AnchorSelector_Skipped(uvt, sel) == uvt

\* the selector userdata luaL_ref'd into the builder's uservalue table
AnchorSelector(uvt, sel) == Append(uvt, [what |-> "selector", val |-> Str(sel)])

\* rewriter_builder_add_element_content_handlers with the selector userdata
\* sel in the table's "selector" field; rc is the engine's status
rewriter_builder_add_element_content_handlers(b, L, tbl, sel, rc, m) ==
    /\ stack = << >>
    /\ bstate[b] = "alive"
    /\ b \in held
    /\ L \notin dead
    /\ sel \in held
    /\ LET anchored == AnchorSelector(uv[b], sel)
           made == CreateAll(L, b, tbl, ElemOrder, anchored)
       IN /\ regs' = Append(regs, [b |-> b, scope |-> "elem", sel |-> sel, table |-> tbl,
                                   args |-> ArgsOf(ElemOrder, made.args),
                                   accepted |-> (rc = 0)])
          /\ uv' = [uv EXCEPT ![b] = made.uv]
    /\ IF rc = 0
       THEN /\ ret' = Ret("add_element_content_handlers", "", 0, "self", Nil,
                          {"add_element_content_handlers"}, "none", Nil)
            /\ UNCHANGED lastError
       ELSE /\ ret' = [Ret("add_element_content_handlers", "", 0, "fail",
                           push_last_error(m),
                           {"add_element_content_handlers", "take_last_error"}, "none", Nil)
                        EXCEPT !.order = << "add_element_content_handlers", "take_last_error" >>]
            /\ lastError' = Nil
    /\ UNCHANGED << bstate, rewriter, sL, sRegs, sSink, sBuilder, collected, freed, freeNull,
                    stack, handles, iters, sinkCalls, sunk >>
    /\ UNCHANGED gcvars

\* selector_new; parsed says whether lol_html_selector_parse returned a selector
\* and the selector userdata sel is made
selector_new(sel, parsed, m) ==
    /\ stack = << >>
    /\ ~sels[sel].made
    /\ parsed => m = lastError
    /\ IF parsed
       THEN /\ ret' = Ret("new_selector", "", 0, "value", Nil, {"selector_parse"}, "none", Nil)
            /\ sels' = [sels EXCEPT ![sel] = [@ EXCEPT !.made = TRUE]]
            /\ held' = held \cup {sel}
            /\ UNCHANGED lastError
       ELSE /\ ret' = [Ret("new_selector", "", 0, "fail", push_last_error(m),
                           {"selector_parse", "take_last_error"}, "none", Nil)
                        EXCEPT !.order = << "selector_parse", "take_last_error" >>]
            /\ lastError' = Nil
            /\ UNCHANGED << sels, held >>
    /\ UNCHANGED << bstate, regs, rewriter, sL, sRegs, sSink, sBuilder, collected, freed, freeNull,
                    stack, handles, iters, sinkCalls, sunk, uv >>
    /\ UNCHANGED << weakreg, refs, tobefnz, dead >>

\* ---------------------------------------------------------------- sessions
Callable_Any(v) == TRUE
Callable(v) == v.t = "function" \/ (v.t = "table" /\ v.s = "callable")
SinkVals == { Func("sink"), Nil }

\* rewriter_new; built says whether lol_html_rewriter_build returned an engine
rewriter_new(s, b, L, sink, built, m) ==
    /\ stack = << >>
    /\ rewriter[s] = "unbuilt"
    /\ bstate[b] = "alive"
    /\ b \in held
    /\ L \notin dead
    /\ IF ~Callable(sink)
       THEN /\ ret' = Ret("new_rewriter", s, 0, "raise", Str("field \"sink\" cannot be called"),
                          { }, "none", Nil)
            /\ UNCHANGED << rewriter, sL, sRegs, sSink, sBuilder, lastError, weakreg, refs, held >>
       ELSE IF ~built
       THEN /\ ret' = [Ret("new_rewriter", s, 0, "fail", push_last_error(m),
                           {"build", "take_last_error"}, "none", Nil)
                        EXCEPT !.order = << "build", "take_last_error" >>]
            /\ lastError' = Nil
            /\ UNCHANGED << rewriter, sL, sRegs, sSink, sBuilder, weakreg, refs, held >>
       ELSE /\ rewriter' = [rewriter EXCEPT ![s] = "live"]
            /\ \E reg_idx \in luaL_ref(weakreg) :
                  /\ weakreg' = RawSet(weakreg, reg_idx, s)
                  /\ refs' = [refs EXCEPT ![s] = reg_idx]
            /\ held' = held \cup {s}
            /\ sL' = [sL EXCEPT ![s] = L]
            /\ sRegs' = [sRegs EXCEPT ![s] =
                            { i \in 1..Len(regs) : regs[i].b = b /\ regs[i].accepted }]
            /\ sSink' = [sSink EXCEPT ![s] = sink]
            /\ sBuilder' = [sBuilder EXCEPT ![s] = b]
            /\ ret' = Ret("new_rewriter", s, 0, "value", Nil, {"build"}, "none", Nil)
            /\ UNCHANGED lastError
    /\ UNCHANGED << bstate, regs, collected, freed, freeNull, stack, handles, iters,
                    sinkCalls, sunk, uv >>
    /\ UNCHANGED << tobefnz, dead, sels >>

ClearPointer_Forgotten(s) == UNCHANGED rewriter

\* *rewriter = NULL after the engine was freed
ClearPointer(s) == rewriter' = [rewriter EXCEPT ![s] = "NULL"]

\* lol_html_rewriter_free(*rewriter) as the bridge calls it: on a live engine
\* it frees it; on a cleared pointer it is a call with a null argument
FreeEngine(s) ==
    IF rewriter[s] = "live"
    THEN /\ freed' = [freed EXCEPT ![s] = IF @ < 2 THEN @ + 1 ELSE @]
         /\ UNCHANGED freeNull
    ELSE /\ freeNull' = freeNull \cup {s}
         /\ UNCHANGED freed

rewriter_write_Unchecked(s, L) ==
    /\ HostCtx
    /\ L \in HostThreads
    /\ L \notin dead
    /\ s \in held
    /\ rewriter[s] # "unbuilt"
    /\ s \notin collected
    /\ Len(stack) < MaxDepth
    /\ stack' = Append(stack, Frame("native", "write", s, L, 0, 0, ""))
    /\ ret' = NoRet
    /\ UNCHANGED << bstate, regs, rewriter, sL, sRegs, sSink, sBuilder, collected, freed, freeNull,
                    handles, iters, sinkCalls, sunk, lastError, uv >>
    /\ UNCHANGED gcvars

\* rewriter_write up to and including the call of lol_html_rewriter_write
rewriter_write(s, L) ==
    /\ HostCtx
    /\ L \in HostThreads
    /\ L \notin dead
    /\ s \in held
    /\ rewriter[s] # "unbuilt"
    /\ s \notin collected
    /\ IF rewriter[s] = "NULL"
       THEN /\ ret' = Ret("write", s, 0, "fail", MsgBroken, { }, "none", Nil)
            /\ UNCHANGED stack
       ELSE /\ Len(stack) < MaxDepth
            /\ stack' = Append(stack, Frame("native", "write", s, L, 0, 0, ""))
            /\ ret' = NoRet
    /\ UNCHANGED << bstate, regs, rewriter, sL, sRegs, sSink, sBuilder, collected, freed, freeNull,
                    handles, iters, sinkCalls, sunk, lastError, uv >>
    /\ UNCHANGED gcvars

\* rewriter_end up to and including the call of lol_html_rewriter_end
rewriter_end(s, L) ==
    /\ HostCtx
    /\ L \in HostThreads
    /\ L \notin dead
    /\ s \in held
    /\ rewriter[s] # "unbuilt"
    /\ s \notin collected
    /\ IF rewriter[s] = "NULL"
       THEN /\ ret' = Ret("close", s, 0, "fail", MsgBroken, { }, "none", Nil)
            /\ UNCHANGED stack
       ELSE /\ Len(stack) < MaxDepth
            /\ stack' = Append(stack, Frame("native", "end", s, L, 0, 0, ""))
            /\ ret' = NoRet
    /\ UNCHANGED << bstate, regs, rewriter, sL, sRegs, sSink, sBuilder, collected, freed, freeNull,
                    handles, iters, sinkCalls, sunk, lastError, uv >>
    /\ UNCHANGED gcvars

\* return_self_or_stack_error: what the call returns and whether it frees.
\* rc is the native status, errs the values lying above prev_top, slot the
\* last-error slot.
return_self_or_stack_error(rc, errs, slot) ==
    IF rc = 0
    THEN [res |-> "self", val |-> Nil, free |-> FALSE, take |-> FALSE]
    ELSE IF errs = << >>
    THEN [res |-> "fail", val |-> push_last_error(slot), free |-> TRUE, take |-> TRUE]
    ELSE [res |-> "fail", val |-> errs[Len(errs)], free |-> TRUE, take |-> FALSE]

\* the native write/end returns rc (the engine leaving m in the last-error
\* slot when it fails), and the rest of rewriter_write / rewriter_end runs
NativeReturn(rc, m) ==
    /\ stack # << >>
    /\ Top.type = "native"
    /\ Top.stopped => rc # 0
    /\ rc = 0 => m = lastError
    /\ LET f == Top
           slot == IF rc = 0 THEN lastError ELSE m
           out == return_self_or_stack_error(rc, f.errs, slot)
           endFree == f.op = "end" /\ rc = 0
       IN /\ IF endFree \/ out.free
             THEN /\ FreeEngine(f.s)
                  /\ ClearPointer(f.s)
             ELSE UNCHANGED << rewriter, freed, freeNull >>
          /\ lastError' = IF out.take THEN Nil ELSE slot
          /\ ret' = [Ret(IF f.op = "end" THEN "close" ELSE "write", f.s, 0, out.res, out.val,
                         {f.op} \cup (IF endFree \/ out.free THEN {"free"} ELSE { })
                                \cup (IF out.take THEN {"take_last_error"} ELSE { }),
                         f.cause, f.raised)
                      EXCEPT !.order = << f.op >> \o (IF endFree \/ out.free THEN << "free" >> ELSE << >>)
                                               \o (IF out.take THEN << "take_last_error" >> ELSE << >>)]
          /\ stack' = SubSeq(stack, 1, Len(stack) - 1)
    /\ UNCHANGED << bstate, regs, sL, sRegs, sSink, sBuilder, collected, handles, iters,
                    sinkCalls, sunk, uv >>
    /\ UNCHANGED gcvars

\* rewriter_destroy, the __gc the collector runs on a session nothing
\* refers to
rewriter_destroy(s) ==
    /\ tobefnz # << >>
    /\ Head(tobefnz) = s
    /\ tobefnz' = Tail(tobefnz)
    /\ rewriter[s] # "unbuilt"
    /\ s \notin collected
    /\ collected' = collected \cup {s}
    /\ IF rewriter[s] = "live"
       THEN /\ FreeEngine(s)
            /\ ClearPointer(s)
       ELSE UNCHANGED << rewriter, freed, freeNull >>
    /\ ret' = NoRet
    /\ UNCHANGED << bstate, regs, sL, sRegs, sSink, sBuilder, stack, handles, iters,
                    sinkCalls, sunk, lastError, uv >>
    /\ UNCHANGED << weakreg, refs, held, dead, sels >>

\* ---------------------------------------------------------------- dispatch
\* The lookups at the head of do_document_content_callback: the userdata in
\* slot builder_index of the weak registry and the value in slot
\* callback_index of that userdata's uservalue table.  A builder's table is
\* uv; a session's table holds the sink and the builder.
Resolve(hd) ==
    LET ud == RawGet(weakreg, hd.builder_index)
    IN [ud |-> ud,
        cb |-> IF ud \in DOMAIN uv
               THEN (IF hd.callback_index \in 1..Len(uv[ud])
                     THEN uv[ud][hd.callback_index].val ELSE Nil)
               ELSE IF ud \in DOMAIN sSink
               THEN (IF hd.callback_index = REWRITER_CALLBACK_INDEX THEN sSink[ud]
                     ELSE IF hd.callback_index = REWRITER_BUILDER_INDEX
                     THEN LuaVal("userdata", FALSE, 0, sBuilder[ud])
                     ELSE Nil)
               ELSE Nil]

\* How a lookup made through a stored lua_State comes out.  With the thread
\* alive and a userdata in the slot it is defined.  On a freed lua_State, or
\* with lua_getuservalue applied to nil, the behaviour is undefined: the
\* memory may be intact and give what it gave before, the process may crash,
\* or the lookup may come back with a wild value.
Outcomes == {"defined", "intact", "crash", "wild"}

\* the engine, inside a running write/end, calls a registered content handler:
\* do_document_content_callback up to the lua_pcall of the callback
Dispatch(reg, field) ==
    /\ stack # << >>
    /\ Top.type = "native"
    /\ ~Top.stopped
    /\ reg \in sRegs[Top.s]
    /\ field \in DOMAIN regs[reg].args
    /\ ~regs[reg].args[field].null
    /\ Len(handles) < MaxHandles
    /\ Len(stack) < MaxDepth
    /\ LET hd == regs[reg].args[field]
           found == Resolve(hd)
       IN \E ub \in Outcomes :
            /\ ub = "defined" <=> (hd.L \notin dead /\ found.ud # "nil")
            /\ ub = "intact" => found.ud # "nil"
            /\ IF ub = "crash"
               THEN /\ stack' = Append(stack, Frame("crash", "dispatch", Top.s, hd.L, 0, reg, field))
                    /\ UNCHANGED handles
               ELSE LET cb == IF ub = "wild" THEN Nil ELSE found.cb
                        f == [Frame("handler", "dispatch", Top.s, hd.L, Len(handles) + 1, reg, field)
                                 EXCEPT !.ud = IF ub = "wild" THEN "nil" ELSE found.ud,
                                        !.callee = cb]
                    IN IF cb.t = "function"
                       THEN /\ handles' = Append(handles, [kind |-> KindOf(field), ptr |-> "valid"])
                            /\ stack' = Append(stack, f)
                       ELSE /\ handles' = Append(handles, [kind |-> KindOf(field), ptr |-> "NULL"])
                            /\ stack' = Append(stack, [f EXCEPT !.phase = "invalidated", !.prc = "err",
                                                                !.rv = MsgNotCallable])
    /\ UNCHANGED << bstate, regs, rewriter, sL, sRegs, sSink, sBuilder, collected, freed, freeNull,
                    iters, sinkCalls, sunk, lastError, uv >>
    /\ UNCHANGED gcvars
    /\ ret' = NoRet

PcallReturn_KeepOnError(prc, v) ==
    /\ stack # << >>
    /\ Top.type = "handler"
    /\ Top.phase = "run"
    /\ stack' = [stack EXCEPT ![Len(stack)] =
                    [@ EXCEPT !.phase = "invalidated", !.prc = prc, !.rv = v]]
    /\ handles' = IF prc = "ok"
                  THEN [handles EXCEPT ![Top.h] = [@ EXCEPT !.ptr = "NULL"]]
                  ELSE handles
    /\ UNCHANGED << bstate, regs, rewriter, sL, sRegs, sSink, sBuilder, collected, freed, freeNull,
                    iters, sinkCalls, sunk, lastError, uv >>
    /\ UNCHANGED gcvars
    /\ ret' = NoRet

\* lua_pcall comes back and the handle is cleared: the callback returned v
\* (prc = "ok") or raised v (prc = "err")
PcallReturn(prc, v) ==
    /\ stack # << >>
    /\ Top.type = "handler"
    /\ Top.phase = "run"
    /\ stack' = [stack EXCEPT ![Len(stack)] =
                    [@ EXCEPT !.phase = "invalidated", !.prc = prc, !.rv = v]]
    /\ handles' = [handles EXCEPT ![Top.h] = [@ EXCEPT !.ptr = "NULL"]]
    /\ UNCHANGED << bstate, regs, rewriter, sL, sRegs, sSink, sBuilder, collected, freed, freeNull,
                    iters, sinkCalls, sunk, lastError, uv >>
    /\ UNCHANGED gcvars
    /\ ret' = NoRet

HandlerReturn(v) == PcallReturn("ok", v)
HandlerRaise(e) == PcallReturn("err", e)

Interpret_ZeroRejected(prc, rv) ==
    IF prc # "ok"
    THEN [d |-> LOL_HTML_STOP, left |-> << rv >>, cause |-> "raise"]
    ELSE IF rv.t = "nil"
    THEN [d |-> LOL_HTML_CONTINUE, left |-> << >>, cause |-> "none"]
    ELSE IF rv.t = "number" /\ rv.isint /\ rv.n = LOL_HTML_STOP
    THEN [d |-> LOL_HTML_STOP, left |-> << >>, cause |-> "stop"]
    ELSE [d |-> LOL_HTML_STOP, left |-> << MsgInvalidReturn >>, cause |-> "badret"]

\* the rest of do_document_content_callback: the directive, what is left on
\* the Lua stack, and why
InvalidReturn == [d |-> LOL_HTML_STOP, left |-> << MsgInvalidReturn >>, cause |-> "badret"]
Interpret(prc, rv) ==
    IF prc # "ok"
    THEN [d |-> LOL_HTML_STOP, left |-> << rv >>, cause |-> "raise"]
    ELSE IF rv.t = "nil"
    THEN [d |-> LOL_HTML_CONTINUE, left |-> << >>, cause |-> "none"]
    ELSE IF rv.t = "number"
    THEN IF ~rv.isint THEN InvalidReturn
         ELSE IF rv.n = LOL_HTML_CONTINUE \/ rv.n = LOL_HTML_STOP
         THEN [d |-> rv.n, left |-> << >>,
               cause |-> IF rv.n = LOL_HTML_STOP THEN "stop" ELSE "none"]
         ELSE InvalidReturn
    ELSE InvalidReturn

\* lua_State *L = handler->L: the values the dispatch leaves lie on the stack
\* of thread t, in the frame of the C function running on t (the innermost
\* write/end called on t); with no such frame they lie where nobody looks
Lands(stk, t) == { i \in 1..Len(stk) : stk[i].L = t }
LeaveOnStack(stk, t, vals) ==
    IF vals = << >> \/ Lands(stk, t) = { } THEN stk
    ELSE LET i == CHOOSE k \in Lands(stk, t) : \A j \in Lands(stk, t) : j <= k
         IN [stk EXCEPT ![i] = [@ EXCEPT !.errs = @ \o vals]]

DispatchReturn ==
    /\ stack # << >>
    /\ Top.type = "handler"
    /\ Top.phase = "invalidated"
    /\ LET f == Top
           out == Interpret(f.prc, f.rv)
           n == Len(stack) - 1
           below == [stack[n] EXCEPT
                        !.stopped = @ \/ out.d = LOL_HTML_STOP,
                        !.cause = IF out.cause = "none" THEN @ ELSE out.cause,
                        !.raised = IF out.cause = "raise" THEN f.rv ELSE @]
           stk == [SubSeq(stack, 1, n) EXCEPT ![n] = below]
       IN /\ stack' = LeaveOnStack(stk, f.L, out.left)
          /\ ret' = [Ret("dispatch", f.s, f.h,
                         IF out.d = LOL_HTML_STOP THEN "stop" ELSE "continue",
                         IF out.left = << >> THEN Nil ELSE out.left[1],
                         { }, IF f.prc = "ok" THEN "returned" ELSE "raised", f.rv)
                      EXCEPT !.left = Len(out.left)]
    /\ UNCHANGED << bstate, regs, rewriter, sL, sRegs, sSink, sBuilder, collected, freed, freeNull,
                    handles, iters, sinkCalls, sunk, lastError, uv >>
    /\ UNCHANGED gcvars

\* -------------------------------------------------------------------- sink
\* output chunks the engine may emit, as byte strings (a chunk may hold a
\* zero byte)
Chunks == { << 60 >>, << 97, 0, 98 >> }

lua_pushstring_ToNul(data, len) ==
    IF \E i \in 1..len : data[i] = 0
    THEN SubSeq(data, 1, (CHOOSE i \in 1..len : data[i] = 0 /\ \A j \in 1..(i - 1) : data[j] # 0) - 1)
    ELSE SubSeq(data, 1, len)

\* lua_pushlstring(L, chunk, chunk_len): the Lua string made of exactly the
\* first chunk_len bytes
lua_pushlstring(data, len) == SubSeq(data, 1, len)

\* the engine hands an output chunk to sink_callback, which lua_call's the
\* sink on the thread stored at rewriter_new
SinkCall(chunk) ==
    /\ stack # << >>
    /\ Top.type = "native"
    /\ ~Top.stopped
    /\ Len(stack) < MaxDepth
    /\ LET found == Resolve([builder_index |-> refs[Top.s],
                              callback_index |-> REWRITER_CALLBACK_INDEX])
       IN \E ub \in Outcomes :
            /\ ub = "defined" <=> (sL[Top.s] \notin dead /\ found.ud # "nil")
            /\ ub = "intact" => found.ud # "nil"
            /\ IF ub = "crash"
               THEN /\ stack' = Append(stack, Frame("crash", "sink", Top.s, sL[Top.s], 0, 0, ""))
                    /\ UNCHANGED << sinkCalls, sunk >>
               ELSE /\ sinkCalls' = sinkCalls + 1
                    /\ sunk' = Append(sunk, [s |-> Top.s, chunk |-> chunk,
                                             ud |-> IF ub = "wild" THEN "nil" ELSE found.ud,
                                             callee |-> IF ub = "wild" THEN Nil ELSE found.cb,
                                             arg |-> lua_pushlstring(chunk, Len(chunk))])
                    /\ stack' = Append(stack, Frame("sink", "sink", Top.s, sL[Top.s], 0, 0, ""))
    /\ UNCHANGED << bstate, regs, rewriter, sL, sRegs, sSink, sBuilder, collected, freed, freeNull,
                    handles, iters, lastError, uv >>
    /\ UNCHANGED gcvars
    /\ ret' = NoRet

\* the sink returns and sink_callback pops what it pushed
SinkReturn ==
    /\ stack # << >>
    /\ Top.type = "sink"
    /\ stack' = SubSeq(stack, 1, Len(stack) - 1)
    /\ UNCHANGED << bstate, regs, rewriter, sL, sRegs, sSink, sBuilder, collected, freed, freeNull,
                    handles, iters, sinkCalls, sunk, lastError, uv >>
    /\ UNCHANGED gcvars
    /\ ret' = NoRet

\* the innermost running content handler, 0 if there is none
InnerHandler ==
    IF \E j \in 1..Len(stack) : stack[j].type = "handler" THEN
        CHOOSE j \in 1..Len(stack) :
            /\ stack[j].type = "handler"
            /\ \A k \in 1..Len(stack) : stack[k].type = "handler" => k <= j
    ELSE 0

\* The sink raises e.  lua_call does not catch it: the error unwinds through
\* the native write/end frames above the nearest protected call.  That is the
\* lua_pcall of the innermost running content handler (caught = 0), or a pcall
\* the host wrapped around the write/close call at stack position caught; at
\* top level an uncaught error ends up with the host as well (caught = 1).
\* No unwound write/end reaches return_self_or_stack_error.
SinkRaise(e, caught) ==
    /\ stack # << >>
    /\ Top.type = "sink"
    /\ IF caught = 0
       THEN /\ InnerHandler # 0
            /\ stack' = [SubSeq(stack, 1, InnerHandler) EXCEPT ![InnerHandler] =
                            [@ EXCEPT !.phase = "invalidated", !.prc = "err", !.rv = e]]
            /\ handles' = [handles EXCEPT ![stack[InnerHandler].h] = [@ EXCEPT !.ptr = "NULL"]]
            /\ ret' = NoRet
       ELSE /\ caught \in (InnerHandler + 1)..(Len(stack) - 1)
            /\ stack[caught].type = "native"
            /\ stack' = SubSeq(stack, 1, caught - 1)
            /\ ret' = Ret(IF stack[caught].op = "end" THEN "close" ELSE "write",
                          stack[caught].s, 0, "raise", e, {stack[caught].op}, "sink", e)
            /\ UNCHANGED handles
    /\ UNCHANGED << bstate, regs, rewriter, sL, sRegs, sSink, sBuilder, collected, freed, freeNull,
                    iters, sinkCalls, sunk, lastError, uv >>
    /\ UNCHANGED gcvars

\* ----------------------------------------------------- transient handles
check_valid_udata_NullFirst(kind, ptr, tname) ==
    IF ptr = "NULL" THEN "past"
    ELSE IF kind # tname THEN "type"
    ELSE "ok"

\* check_valid_udata on a userdata of metatable kind holding ptr, asked for
\* tname: luaL_checkudata's type error first, then the NULL test
check_valid_udata(kind, ptr, tname) ==
    IF kind # tname THEN "type"
    ELSE IF ptr = "NULL" THEN "past"
    ELSE "ok"

ArgError(chk) == IF chk = "type" THEN MsgBadType ELSE MsgPastLifetime

\* any accessor or mutator of the family tname (comment_get_text,
\* element_set_attribute, doc_end_append, ...) called on handle h; rc is the
\* status of the native call and m what it leaves in the last-error slot
Accessor(h, tname, rc, m) ==
    /\ HostCtx
    /\ h \in 1..Len(handles)
    /\ rc = 0 => m = lastError
    /\ LET chk == check_valid_udata(handles[h].kind, handles[h].ptr, tname)
       IN IF chk # "ok"
          THEN /\ rc = 0
               /\ ret' = Ret("accessor", tname, h, "raise", ArgError(chk), { }, "none", Nil)
               /\ UNCHANGED lastError
          ELSE IF rc = 0
          THEN /\ ret' = Ret("accessor", tname, h, "self", Nil, {"accessor"}, "none", Nil)
               /\ UNCHANGED lastError
          ELSE /\ ret' = [Ret("accessor", tname, h, "fail", push_last_error(m),
                              {"accessor", "take_last_error"}, "none", Nil)
                           EXCEPT !.order = << "accessor", "take_last_error" >>]
               /\ lastError' = Nil
    /\ UNCHANGED << bstate, regs, rewriter, sL, sRegs, sSink, sBuilder, collected, freed, freeNull,
                    stack, handles, iters, sinkCalls, sunk, uv >>
    /\ UNCHANGED gcvars

\* element_attributes: a new attribute_iterator userdata over element h
element_attributes(h) ==
    /\ HostCtx
    /\ h \in 1..Len(handles)
    /\ Len(iters) < MaxIters
    /\ LET chk == check_valid_udata(handles[h].kind, handles[h].ptr, "element")
       IN IF chk # "ok"
          THEN /\ ret' = Ret("attributes", "element", h, "raise", ArgError(chk), { }, "none", Nil)
               /\ UNCHANGED iters
          ELSE /\ iters' = Append(iters, [owner |-> h, ptr |-> "valid", frees |-> 0,
                                          collected |-> FALSE])
               /\ ret' = Ret("attributes", "element", h, "value", Nil,
                             {"iterator_get"}, "none", Nil)
    /\ UNCHANGED << bstate, regs, rewriter, sL, sRegs, sSink, sBuilder, collected, freed, freeNull,
                    stack, handles, sinkCalls, sunk, lastError, uv >>
    /\ UNCHANGED gcvars

\* the native iterator borrows from the element: it dangles once the element
\* callback has returned
Dangling(i) == iters[i].ptr = "valid" /\ handles[iters[i].owner].ptr = "NULL"

\* attribute_iterator_next; more says whether the native iterator yields
\* another attribute
attribute_iterator_next(i, more) ==
    /\ HostCtx
    /\ i \in 1..Len(iters)
    /\ ~iters[i].collected
    /\ LET chk == check_valid_udata("attribute_iterator", iters[i].ptr, "attribute_iterator")
       IN IF chk # "ok"
          THEN /\ more
               /\ ret' = Ret("next", "", i, "raise", ArgError(chk), { }, "none", Nil)
               /\ UNCHANGED iters
          ELSE IF more
          THEN /\ ret' = Ret("next", "", i, "value", Str("name, value"), {"iterator_next"},
                             IF Dangling(i) THEN "dangling" ELSE "none", Nil)
               /\ UNCHANGED iters
          ELSE /\ ret' = Ret("next", "", i, "value", Nil, {"iterator_next", "iterator_free"},
                             IF Dangling(i) THEN "dangling" ELSE "none", Nil)
               /\ iters' = [iters EXCEPT ![i] =
                               [@ EXCEPT !.ptr = "NULL", !.frees = IF @ < 2 THEN @ + 1 ELSE @]]
    /\ UNCHANGED << bstate, regs, rewriter, sL, sRegs, sSink, sBuilder, collected, freed, freeNull,
                    stack, handles, sinkCalls, sunk, lastError, uv >>
    /\ UNCHANGED gcvars

attribute_iterator_destroy_Unguarded(i) ==
    /\ stack = << >>
    /\ i \in 1..Len(iters)
    /\ ~iters[i].collected
    /\ iters' = [iters EXCEPT ![i] =
                    [@ EXCEPT !.collected = TRUE, !.ptr = "NULL",
                              !.frees = IF @ < 2 THEN @ + 1 ELSE @]]
    /\ ret' = NoRet
    /\ UNCHANGED << bstate, regs, rewriter, sL, sRegs, sSink, sBuilder, collected, freed, freeNull,
                    stack, handles, sinkCalls, sunk, lastError, uv >>
    /\ UNCHANGED gcvars

\* attribute_iterator_destroy, run by the collector on an abandoned iterator
attribute_iterator_destroy(i) ==
    /\ stack = << >>
    /\ i \in 1..Len(iters)
    /\ ~iters[i].collected
    /\ iters' = [iters EXCEPT ![i] =
                    [@ EXCEPT !.collected = TRUE, !.ptr = "NULL",
                              !.frees = IF iters[i].ptr # "NULL" /\ @ < 2 THEN @ + 1 ELSE @]]
    /\ ret' = NoRet
    /\ UNCHANGED << bstate, regs, rewriter, sL, sRegs, sSink, sBuilder, collected, freed, freeNull,
                    stack, handles, sinkCalls, sunk, lastError, uv >>
    /\ UNCHANGED gcvars

\* ------------------------------------------------------------ the collector
\* Userdata with a __gc metamethod: builders, sessions and selectors.
Objects == DOMAIN bstate \cup DOMAIN rewriter \cup DOMAIN sels

\* o was made: its metatable is set
Made(o) ==
    \/ o \in DOMAIN bstate /\ bstate[o] # "none"
    \/ o \in DOMAIN rewriter /\ rewriter[o] # "unbuilt"
    \/ o \in DOMAIN sels /\ sels[o].made

\* the __gc of o has run
Finalized(o) ==
    \/ o \in DOMAIN bstate /\ bstate[o] = "freed"
    \/ o \in collected
    \/ o \in DOMAIN sels /\ sels[o].collected

\* the selectors anchored in the uservalue table of builder b
SelectorsOf(b) == { uv[b][k].val.s : k \in { i \in 1..Len(uv[b]) : uv[b][i].what = "selector" } }

\* What the host can still reach: what it holds and the sessions that are
\* arguments of running calls, the builder in the uservalue table of each
\* such session, and what the uservalue tables of those builders anchor.
Reach ==
    LET roots == held \cup { stack[j].s : j \in 1..Len(stack) }
        withBuilders == roots \cup { sBuilder[s] : s \in { x \in roots \cap DOMAIN rewriter :
                                                              rewriter[x] # "unbuilt" } }
    IN withBuilders \cup UNION { SelectorsOf(b) : b \in withBuilders \cap DOMAIN uv }

\* the host program forgets its last reference to o
Drop(o) ==
    /\ HostCtx
    /\ o \in held
    /\ held' = held \ {o}
    /\ ret' = NoRet
    /\ UNCHANGED << bstate, regs, rewriter, sL, sRegs, sSink, sBuilder, collected, freed, freeNull,
                    stack, handles, iters, sinkCalls, sunk, lastError, uv >>
    /\ UNCHANGED << weakreg, refs, tobefnz, dead, sels >>

\* objects the next collection cycle finds unreachable and not yet finalized
Garbage ==
    { o \in Objects : /\ Made(o)
                      /\ ~Finalized(o)
                      /\ o \notin Reach
                      /\ \A i \in 1..Len(tobefnz) : tobefnz[i] # o }

\* the orders in which the finalizers of the objects of S may be called:
\* the reverse of the order in which their metatables were set, so a session
\* comes before the builder it was built from
Orders(S) ==
    { q \in [1..Cardinality(S) -> S] :
        /\ \A i, j \in 1..Cardinality(S) : q[i] = q[j] => i = j
        /\ \A i, j \in 1..Cardinality(S) :
              (q[i] \in DOMAIN sBuilder /\ q[j] = sBuilder[q[i]]) => i < j }

\* A collection cycle: the unreachable objects are queued for finalization
\* and removed from the values of the weak registry (__mode = "v").
GcCycle ==
    /\ Garbage # { }
    /\ \E order \in Orders(Garbage) : tobefnz' = tobefnz \o order
    /\ weakreg' = Trim([k \in 1..Len(weakreg) |->
                           IF weakreg[k] \in Garbage THEN "nil" ELSE weakreg[k]])
    /\ ret' = NoRet
    /\ UNCHANGED << bstate, regs, rewriter, sL, sRegs, sSink, sBuilder, collected, freed, freeNull,
                    stack, handles, iters, sinkCalls, sunk, lastError, uv >>
    /\ UNCHANGED << refs, held, dead, sels >>

\* rewriter_builder_destroy, the __gc of a builder
rewriter_builder_destroy(b) ==
    /\ tobefnz # << >>
    /\ Head(tobefnz) = b
    /\ b \in DOMAIN bstate
    /\ tobefnz' = Tail(tobefnz)
    /\ bstate' = [bstate EXCEPT ![b] = "freed"]
    /\ ret' = NoRet
    /\ UNCHANGED << regs, rewriter, sL, sRegs, sSink, sBuilder, collected, freed, freeNull,
                    stack, handles, iters, sinkCalls, sunk, lastError, uv >>
    /\ UNCHANGED << weakreg, refs, held, dead, sels >>

\* selector_destroy, the __gc of a selector
selector_destroy(sel) ==
    /\ tobefnz # << >>
    /\ Head(tobefnz) = sel
    /\ sel \in DOMAIN sels
    /\ tobefnz' = Tail(tobefnz)
    /\ sels' = [sels EXCEPT ![sel] =
                   [@ EXCEPT !.collected = TRUE, !.frees = IF @ < 2 THEN @ + 1 ELSE @]]
    /\ ret' = NoRet
    /\ UNCHANGED << bstate, regs, rewriter, sL, sRegs, sSink, sBuilder, collected, freed, freeNull,
                    stack, handles, iters, sinkCalls, sunk, lastError, uv >>
    /\ UNCHANGED << weakreg, refs, held, dead >>

\* The collector frees the coroutine t, which has finished and which nothing
\* refers to: handler_data_t.L and lua_rewriter_t.L are plain pointers and do
\* not keep it.
ThreadCollected(t) ==
    /\ stack = << >>
    /\ t # "main"
    /\ t \notin dead
    /\ dead' = dead \cup {t}
    /\ ret' = NoRet
    /\ UNCHANGED << bstate, regs, rewriter, sL, sRegs, sSink, sBuilder, collected, freed, freeNull,
                    stack, handles, iters, sinkCalls, sunk, lastError, uv >>
    /\ UNCHANGED << weakreg, refs, held, tobefnz, sels >>

\* ------------------------------------------------------------ specification
Init ==
    /\ bstate = [b \in Builders |-> "none"]
    /\ regs = << >>
    /\ rewriter = [s \in Sessions |-> "unbuilt"]
    /\ sL = [s \in Sessions |-> "main"]
    /\ sRegs = [s \in Sessions |-> { }]
    /\ sSink = [s \in Sessions |-> Nil]
    /\ sBuilder = [s \in Sessions |-> ""]
    /\ collected = { }
    /\ freed = [s \in Sessions |-> 0]
    /\ freeNull = { }
    /\ stack = << >>
    /\ handles = << >>
    /\ iters = << >>
    /\ sinkCalls = 0
    /\ sunk = << >>
    /\ lastError = Nil
    /\ uv = [b \in Builders |-> << >>]
    /\ weakreg = << >>
    /\ refs = [o \in Builders \cup Sessions |-> 0]
    /\ held = { }
    /\ tobefnz = << >>
    /\ dead = { }
    /\ sels = [sel \in Selectors |-> [made |-> FALSE, collected |-> FALSE, frees |-> 0]]
    /\ ret = NoRet

Next ==
    \/ \E b \in Builders : rewriter_builder_new(b)
    \/ \E b \in Builders, L \in Threads, tbl \in DocTables :
          Len(regs) < MaxRegs /\ rewriter_builder_add_document_content_handlers(b, L, tbl)
    \/ \E b \in Builders, L \in Threads, tbl \in ElemTables, sel \in Selectors,
          rc \in {0, 1}, m \in ErrSlots :
          Len(regs) < MaxRegs /\ rewriter_builder_add_element_content_handlers(b, L, tbl, sel, rc, m)
    \/ \E sel \in Selectors, parsed \in BOOLEAN, m \in ErrSlots : selector_new(sel, parsed, m)
    \/ \E s \in Sessions, b \in Builders, L \in Threads, sink \in SinkVals,
          built \in BOOLEAN, m \in ErrSlots :
          rewriter_new(s, b, L, sink, built, m)
    \/ \E s \in Sessions, L \in Threads : rewriter_write(s, L)
    \/ \E s \in Sessions, L \in Threads : rewriter_end(s, L)
    \/ \E rc \in {0, 1}, m \in ErrSlots : NativeReturn(rc, m)
    \/ \E s \in Sessions : stack = << >> /\ Drop(s)
    \/ GcCycle
    \/ \E s \in Sessions : rewriter_destroy(s)
    \/ \E reg \in 1..MaxRegs, field \in Fields : reg <= Len(regs) /\ Dispatch(reg, field)
    \/ \E v \in RetVals : HandlerReturn(v)
    \/ \E e \in ErrVals : HandlerRaise(e)
    \/ DispatchReturn
    \/ \E chunk \in Chunks : sinkCalls < MaxSink /\ SinkCall(chunk)
    \/ SinkReturn
    \/ \E e \in ErrVals, caught \in 0..MaxDepth : SinkRaise(e, caught)
    \/ \E h \in 1..MaxHandles, tname \in Kinds, rc \in {0, 1}, m \in ErrSlots :
          Accessor(h, tname, rc, m)
    \/ \E h \in 1..MaxHandles : element_attributes(h)
    \/ \E i \in 1..MaxIters, more \in BOOLEAN : attribute_iterator_next(i, more)
    \/ \E i \in 1..MaxIters : attribute_iterator_destroy(i)

Spec == Init /\ [][Next]_vars

\* ------------------------------------------- construction-phase specification
\* The same bridge with two sessions, two registrations and every kind of
\* sink value, driven from one thread and without handle accessors: the
\* builder and session construction rules are about repeated calls.
MaxRegsBuild == 2
MaxSinkBuild == 2
AllSessions == {"s1", "s2"}
SinkValsAll == SinkVals \cup { LuaVal("table", FALSE, 0, "callable"), Str("not callable") }

InitBuild ==
    /\ bstate = [b \in Builders |-> "none"]
    /\ regs = << >>
    /\ rewriter = [s \in AllSessions |-> "unbuilt"]
    /\ sL = [s \in AllSessions |-> "main"]
    /\ sRegs = [s \in AllSessions |-> { }]
    /\ sSink = [s \in AllSessions |-> Nil]
    /\ sBuilder = [s \in AllSessions |-> ""]
    /\ collected = { }
    /\ freed = [s \in AllSessions |-> 0]
    /\ freeNull = { }
    /\ stack = << >>
    /\ handles = << >>
    /\ iters = << >>
    /\ sinkCalls = 0
    /\ sunk = << >>
    /\ lastError = Nil
    /\ uv = [b \in Builders |-> << >>]
    /\ weakreg = << >>
    /\ refs = [o \in Builders \cup AllSessions |-> 0]
    /\ held = { }
    /\ tobefnz = << >>
    /\ dead = { }
    /\ sels = [sel \in Selectors |-> [made |-> FALSE, collected |-> FALSE, frees |-> 0]]
    /\ ret = NoRet

NextBuild ==
    \/ \E b \in Builders : rewriter_builder_new(b)
    \/ \E b \in Builders, tbl \in DocTables :
          Len(regs) < MaxRegsBuild /\ rewriter_builder_add_document_content_handlers(b, "main", tbl)
    \/ \E sel \in Selectors : selector_new(sel, TRUE, lastError)
    \/ \E b \in Builders, tbl \in ElemTables, sel \in Selectors :
          Len(regs) < MaxRegsBuild
              /\ rewriter_builder_add_element_content_handlers(b, "main", tbl, sel, 0, lastError)
    \/ \E s \in AllSessions, b \in Builders, sink \in SinkValsAll, built \in BOOLEAN :
          rewriter_new(s, b, "main", sink, built, MsgEngine)
    \/ \E s \in AllSessions : rewriter_write(s, "main")
    \/ NativeReturn(0, lastError)
    \/ \E reg \in 1..MaxRegsBuild, field \in Fields : reg <= Len(regs) /\ Dispatch(reg, field)
    \/ HandlerReturn(Nil)
    \/ DispatchReturn
    \/ \E chunk \in Chunks : sinkCalls < MaxSinkBuild /\ SinkCall(chunk)
    \/ SinkReturn

SpecBuild == InitBuild /\ [][NextBuild]_vars

\* --------------------------------------------------- collection specification
\* The same bridge with two builders and a selector, whose references the
\* host program drops between its calls, and a collector that runs at any
\* moment: the registry and anchoring rules are about what is collected when.
MaxRegsGC == 2
MaxSinkGC == 1
MaxHandlesGC == 1
AllBuilders == {"b1", "b2"}

InitGC ==
    /\ bstate = [b \in AllBuilders |-> "none"]
    /\ regs = << >>
    /\ rewriter = [s \in Sessions |-> "unbuilt"]
    /\ sL = [s \in Sessions |-> "main"]
    /\ sRegs = [s \in Sessions |-> { }]
    /\ sSink = [s \in Sessions |-> Nil]
    /\ sBuilder = [s \in Sessions |-> ""]
    /\ collected = { }
    /\ freed = [s \in Sessions |-> 0]
    /\ freeNull = { }
    /\ stack = << >>
    /\ handles = << >>
    /\ iters = << >>
    /\ sinkCalls = 0
    /\ sunk = << >>
    /\ lastError = Nil
    /\ uv = [b \in AllBuilders |-> << >>]
    /\ weakreg = << >>
    /\ refs = [o \in AllBuilders \cup Sessions |-> 0]
    /\ held = { }
    /\ tobefnz = << >>
    /\ dead = { }
    /\ sels = [sel \in Selectors |-> [made |-> FALSE, collected |-> FALSE, frees |-> 0]]
    /\ ret = NoRet

NextGC ==
    \/ \E b \in AllBuilders : rewriter_builder_new(b)
    \/ \E sel \in Selectors : selector_new(sel, TRUE, lastError)
    \/ \E L \in Threads :
          Len(regs) < MaxRegsGC
              /\ rewriter_builder_add_document_content_handlers("b1", L, DocTable(Nil, Func("f1"), Nil, Nil))
    \/ \E b \in AllBuilders, tbl \in ElemTables, sel \in Selectors :
          Len(regs) < MaxRegsGC
              /\ rewriter_builder_add_element_content_handlers(b, "main", tbl, sel, 0, lastError)
    \/ \E s \in Sessions, b \in AllBuilders :
          rewriter_new(s, b, "main", Func("sink"), TRUE, lastError)
    \/ \E s \in Sessions : stack = << >> /\ rewriter_write(s, "main")
    \/ NativeReturn(0, lastError)
    \/ \E reg \in 1..MaxRegsGC, field \in Fields :
          reg <= Len(regs) /\ Len(handles) < MaxHandlesGC /\ Dispatch(reg, field)
    \/ HandlerReturn(Nil)
    \/ DispatchReturn
    \/ \E chunk \in Chunks : sinkCalls < MaxSinkGC /\ SinkCall(chunk)
    \/ SinkReturn
    \/ \E o \in AllBuilders \cup Sessions \cup Selectors : stack = << >> /\ Drop(o)
    \/ GcCycle
    \/ \E s \in Sessions : rewriter_destroy(s)
    \/ \E b \in AllBuilders : rewriter_builder_destroy(b)
    \/ \E sel \in Selectors : selector_destroy(sel)
    \/ \E t \in Threads : ThreadCollected(t)

SpecGC == InitGC /\ [][NextGC]_vars

\* ================================================================== claims
\* the handler invocation that was given handle h is still running
Running(h) ==
    \E j \in 1..Len(stack) :
        stack[j].type = "handler" /\ stack[j].h = h /\ stack[j].phase = "run"

C2_IteratorGuarded ==
    (ret.op = "next" /\ ~Running(iters[ret.h].owner))
        => (ret.res = "raise" /\ ret.val = MsgPastLifetime /\ ret.native = { })

\* C3: a write or close call on a session whose engine pointer is cleared
\* returns (nil, "broken rewriter"), issues no native call, starts no native
\* write/end (so no handler or sink runs for it) and changes nothing else.
C3_BrokenStaysBroken ==
    [][\A s \in Sessions, L \in Threads :
          (rewriter[s] = "NULL" /\ (rewriter_write(s, L) \/ rewriter_end(s, L)))
             => /\ ret'.res = "fail"
                /\ ret'.val = MsgBroken
                /\ ret'.native = { }
                /\ UNCHANGED << bstate, regs, rewriter, sL, sRegs, sSink, sBuilder, collected, freed,
                                freeNull, stack, handles, iters, sinkCalls, sunk, lastError, uv >>]_vars

C3_Witness ==
    /\ ret.op \in {"write", "close"}
    /\ ret.res = "fail"
    /\ ret.val = MsgBroken
    /\ rewriter[ret.on] = "NULL"

\* C4: the engine of a session is freed at most once, and exactly once as soon
\* as the session is Broken, Closed or collected; no native write/end is
\* started on a session whose engine was freed.
C4_FreedOnce ==
    /\ [](\A s \in Sessions :
            /\ freed[s] <= 1
            /\ (rewriter[s] = "NULL" <=> freed[s] = 1)
            /\ (s \in collected => freed[s] = 1))
    /\ [][\A s \in Sessions :
            freed[s] >= 1 =>
               ~(/\ Len(stack') = Len(stack) + 1
                 /\ stack'[Len(stack')].type = "native"
                 /\ stack'[Len(stack')].s = s)]_vars

C4_Witness ==
    \E s \in Sessions :
        /\ s \in collected
        /\ freed[s] = 1
        /\ freeNull = { }

\* C5: a write or close that reached the engine and came back with an error
\* (native status, handler raising, invalid handler return) leaves the session
\* Broken with its engine freed; a successful write leaves it Healthy and a
\* successful close leaves it Closed.
C5_ErrorsBreak ==
    (ret.op \in {"write", "close"} /\ ret.res \in {"self", "fail"} /\ ret.native # { })
        => /\ ret.cause \in {"raise", "badret"} => ret.res = "fail"
           /\ ret.res = "fail" => (rewriter[ret.on] = "NULL" /\ freed[ret.on] = 1)
           /\ (ret.res = "self" /\ ret.op = "write") => rewriter[ret.on] = "live"
           /\ (ret.res = "self" /\ ret.op = "close") =>
                 (rewriter[ret.on] = "NULL" /\ freed[ret.on] = 1)

\* C6: a write or close during which the sink raised returns the raised value
\* as its error result, (nil, e), and leaves the session Broken and freed.
C6_SinkErrorReturned ==
    (ret.op \in {"write", "close"} /\ ret.cause = "sink")
        => /\ ret.res = "fail"
           /\ ret.val = ret.arg
           /\ rewriter[ret.on] = "NULL"
           /\ freed[ret.on] = 1

\* C7: a write or close during which a content handler raised e returns
\* (nil, e), with e the raised value itself.
C7_HandlerErrorUnmodified ==
    (ret.op \in {"write", "close"} /\ ret.cause = "raise")
        => (ret.res = "fail" /\ ret.val = ret.arg)

\* the handler results that are neither nil nor one of the two sentinels
InvalidRet(v) ==
    /\ v.t # "nil"
    /\ ~(v.t = "number" /\ v.isint /\ v.n \in {LOL_HTML_CONTINUE, LOL_HTML_STOP})

\* C8: a handler returning nil and a handler returning CONTINUE give the same
\* dispatch outcome: the dispatch ends with directive Continue, leaves nothing
\* on the Lua stack, does not touch the session, and the running native call
\* goes on exactly as it stood (not stopped, no error recorded).
C8_NilIsContinue ==
    [][(/\ stack # << >>
        /\ Top.type = "handler"
        /\ Top.phase = "invalidated"
        /\ Top.prc = "ok"
        /\ Top.rv \in {Nil, Num(LOL_HTML_CONTINUE)})
          => /\ ret'.op = "dispatch"
             /\ ret'.res = "continue"
             /\ ret'.left = 0
             /\ rewriter' = rewriter
             /\ freed' = freed
             /\ stack' = SubSeq(stack, 1, Len(stack) - 1)]_vars

C8_Witness ==
    /\ ret.op = "dispatch"
    /\ ret.cause = "returned"
    /\ ret.arg = Nil
    /\ ret.res = "continue"
    /\ ret.left = 0
    /\ rewriter[ret.on] = "live"

\* C9: a handler result that is neither nil nor a sentinel ends the dispatch
\* with directive Stop and the message "invalid content handler return", and
\* the enclosing write/close returns (nil, that message); the STOP sentinel
\* ends the dispatch with directive Stop and leaves no value.
C9_InvalidReturn ==
    /\ (ret.op = "dispatch" /\ ret.cause = "returned" /\ InvalidRet(ret.arg))
          => (ret.res = "stop" /\ ret.left = 1 /\ ret.val = MsgInvalidReturn)
    /\ (ret.op = "dispatch" /\ ret.cause = "returned" /\ ret.arg = Num(LOL_HTML_STOP))
          => (ret.res = "stop" /\ ret.left = 0)
    /\ (ret.op \in {"write", "close"} /\ ret.cause = "badret")
          => (ret.res = "fail" /\ ret.val = MsgInvalidReturn)

\* C10: a field absent from the handler table is handed to the engine as a
\* null callback with null user data, and every handler invocation the host
\* sees comes from a field that held a value in the table of its registration.
C10_NullPassThrough ==
    /\ \A i \in 1..Len(regs) : \A f \in DOMAIN regs[i].table :
          regs[i].table[f] = Nil => regs[i].args[f] = NullHandler
    /\ \A j \in 1..Len(stack) :
          stack[j].type = "handler" => regs[stack[j].reg].table[stack[j].field] # Nil

C10_Witness ==
    /\ stack # << >>
    /\ Top.type = "handler"
    /\ \E f \in DOMAIN regs[Top.reg].table :
          regs[Top.reg].table[f] = Nil /\ regs[Top.reg].args[f] = NullHandler

\* C11: a builder consumed by a successful new_rewriter is not the source of
\* another session: at most one session was ever built from each builder.
C11_BuilderConsumedOnce ==
    \A b \in Builders :
        Cardinality({ s \in DOMAIN rewriter : rewriter[s] # "unbuilt" /\ sBuilder[s] = b }) <= 1

\* C12: per builder and document-level event kind at most one registration
\* is in force: the builder anchors at most one handler for the kind, and no
\* two add_document_content_handlers calls on it both handed the engine a
\* non-null handler for the kind.
C12_OneDocHandlerPerKind ==
    \A b \in Builders, f \in DocFields :
        /\ Cardinality({ k \in 1..Len(uv[b]) :
                            uv[b][k] = [what |-> "handler_data", val |-> Str(f)] }) <= 1
        /\ \A i, j \in 1..Len(regs) :
              (i < j /\ regs[i].b = b /\ regs[j].b = b
                     /\ regs[i].scope = "doc" /\ regs[j].scope = "doc")
                 => (regs[i].args[f].null \/ regs[j].args[f].null)

\* C13: a use-after-lifetime failure is local to the accessor call: the call
\* itself touches neither the session nor the running calls, the error it
\* raised inside a handler is not what that handler's protected call comes
\* back with, and no write or close ends with it as its error.
C13_UseAfterLifetimeLocal ==
    /\ [][(ret'.op \in {"accessor", "attributes"} /\ ret'.res = "raise"
              /\ ret'.val = MsgPastLifetime)
            => UNCHANGED << rewriter, freed, freeNull, stack, handles >>]_vars
    /\ [][(ret.op \in {"accessor", "attributes"} /\ ret.res = "raise"
              /\ ret.val = MsgPastLifetime /\ stack # << >> /\ Top.type = "handler")
            => ~HandlerRaise(MsgPastLifetime)]_vars
    /\ [](ret.op \in {"write", "close"}
            => ~(ret.cause = "raise" /\ ret.arg = MsgPastLifetime))

RECURSIVE Concat(_, _)
\* the bytes of field of the entries of seq, one after the other
Concat(seq, field) ==
    IF seq = << >> THEN << >> ELSE seq[1][field] \o Concat(Tail(seq), field)

\* C14: every chunk the engine emits is given to the configured sink exactly
\* once, in emission order and byte for byte: each emission starts exactly
\* one sink invocation, with the chunk's bytes as its argument.
C14_SinkGetsEveryChunk ==
    /\ [](/\ Len(sunk) = sinkCalls
          /\ \A k \in 1..Len(sunk) :
                sunk[k].arg = sunk[k].chunk /\ sunk[k].callee = sSink[sunk[k].s]
          /\ Concat(sunk, "arg") = Concat(sunk, "chunk"))
    /\ [][(\E chunk \in Chunks : SinkCall(chunk))
            => /\ Len(sunk') = Len(sunk) + 1
               /\ SubSeq(sunk', 1, Len(sunk)) = sunk
               /\ Len(stack') = Len(stack) + 1
               /\ stack'[Len(stack')].type = "sink"]_vars

C14_Witness ==
    /\ Len(sunk) = MaxSinkBuild
    /\ sunk[1].chunk # sunk[2].chunk
    /\ \E k \in 1..Len(sunk) : 0 \in { sunk[k].chunk[i] : i \in 1..Len(sunk[k].chunk) }
    /\ stack = << >>

\* C15: an accessor given a handle of another kind fails with the type error,
\* never with the use-after-lifetime error, whether or not the handle was
\* already invalidated, and issues no native call.
C15_KindMismatchDistinct ==
    (ret.op \in {"accessor", "attributes"} /\ ret.on # handles[ret.h].kind)
        => /\ ret.res = "raise"
           /\ ret.val = MsgBadType
           /\ ret.val # MsgPastLifetime
           /\ ret.native = { }

C15_Witness ==
    /\ ret.op = "accessor"
    /\ ret.on # handles[ret.h].kind
    /\ handles[ret.h].ptr = "NULL"
    /\ ret.val = MsgBadType

\* the failing operation gave the host (nil, text of the last-error slot), or
\* (nil, "unknown error") when the engine left the slot empty
Surfaced(m) ==
    /\ ret'.res = "fail"
    /\ ret'.val = IF m = Nil THEN MsgUnknown ELSE m
    /\ "take_last_error" \in ret'.native

\* C16: every engine-reported failure (selector parse, build, element
\* registration, a mutator, a native write/end with no host error pending) is
\* returned by the failing call as (nil, message), the message being the
\* engine's last-error text or "unknown error"; a failed build leaves no
\* session.
C16_EngineFailureSurfaced ==
    [][/\ \A m \in ErrSlots : (\E sel \in Selectors : selector_new(sel, FALSE, m)) => Surfaced(m)
       /\ \A s \in Sessions, b \in Builders, L \in Threads, sink \in SinkVals, m \in ErrSlots :
             (sink.t = "function" /\ rewriter_new(s, b, L, sink, FALSE, m))
                => (Surfaced(m) /\ rewriter'[s] = "unbuilt")
       /\ \A b \in Builders, L \in Threads, tbl \in ElemTables, sel \in Selectors, m \in ErrSlots :
             rewriter_builder_add_element_content_handlers(b, L, tbl, sel, 1, m) => Surfaced(m)
       /\ \A h \in 1..MaxHandles, tname \in Kinds, m \in ErrSlots :
             Accessor(h, tname, 1, m) => Surfaced(m)
       /\ \A m \in ErrSlots :
             (stack # << >> /\ Top.errs = << >> /\ NativeReturn(1, m)) => Surfaced(m)]_vars

C16_Witness ==
    /\ ret.op = "write"
    /\ ret.res = "fail"
    /\ ret.val = MsgUnknown
    /\ ret.cause = "none"
    /\ "take_last_error" \in ret.native

\* a function, or an object with a __call metamethod
CallableValue(v) == v.t = "function" \/ (v.t = "table" /\ v.s = "callable")

\* C17: new_rewriter given an absent or non-callable sink fails before the
\* native build and creates no session; given a function or a callable object
\* it keeps that very value, which is what each sink invocation calls.
C17_CallableSinkRequired ==
    /\ [][\A s \in AllSessions, b \in Builders, sink \in SinkValsAll, built \in BOOLEAN :
            rewriter_new(s, b, "main", sink, built, MsgEngine)
               => IF CallableValue(sink)
                  THEN built => (rewriter'[s] = "live" /\ sSink'[s] = sink)
                  ELSE /\ ret'.res = "raise"
                       /\ ret'.native = { }
                       /\ rewriter'[s] = "unbuilt"]_vars
    /\ [](\A s \in AllSessions : rewriter[s] # "unbuilt" => CallableValue(sSink[s]))
    /\ [](\A k \in 1..Len(sunk) : sunk[k].callee = sSink[sunk[k].s])

C17_Witness ==
    \E k \in 1..Len(sunk) : sunk[k].callee = LuaVal("table", FALSE, 0, "callable")

\* C18: when a call reports an engine error, take_last_error is the native
\* call issued right after the failing native call, with no other native call
\* in between.
C18_TakeLastErrorNext ==
    \A k \in 1..Len(ret.order) :
        ret.order[k] = "take_last_error"
            => (k > 1 /\ ret.order[k - 1] \notin {"free", "take_last_error"})

\* C19: callback firings never overlap: at most one transient handle is valid
\* at any time.
C19_NoOverlap ==
    Cardinality({ h \in 1..Len(handles) : handles[h].ptr = "valid" }) <= 1

\* C20: a handler or sink callback runs on the thread that is executing the
\* write/close call that triggered it.
C20_CallbackOnCallingThread ==
    \A j \in 2..Len(stack) :
        stack[j].type \in {"handler", "sink"} => stack[j].L = stack[j - 1].L

\* C21: the native iterator of an attribute iterator is freed at most once:
\* by the end of the sequence or by finalization, never by both; a cleared
\* iterator has been freed exactly once and so has a finalized one.  A next
\* on an iterator that reached the end of the sequence raises the
\* use-after-lifetime argument error and makes no native call.
C21_IteratorFreedOnce ==
    /\ [](\A i \in 1..Len(iters) :
            /\ iters[i].frees <= 1
            /\ (iters[i].ptr = "NULL" \/ iters[i].collected) => iters[i].frees = 1)
    /\ [][\A i \in 1..Len(iters), more \in BOOLEAN :
            (attribute_iterator_next(i, more) /\ iters[i].ptr = "NULL")
                => /\ ret'.res = "raise"
                   /\ ret'.val = MsgPastLifetime
                   /\ ret'.native = { }
                   /\ iters' = iters]_vars

\* an iterator that ran to the end of its sequence, was asked once more and
\* refused
C21_Witness ==
    /\ ret.op = "next"
    /\ ret.res = "raise"
    /\ ret.val = MsgPastLifetime
    /\ iters[ret.h].frees = 1

\* C22: a failed native write/end is classified by the depth of the calling
\* stack, and so it is reported as an engine error (the last-error slot is
\* taken) exactly when no handler raised or returned an invalid directive
\* during that call, and as a host-callback error exactly when one did.
C22_ClassifiedByCause ==
    (ret.op \in {"write", "close"} /\ ret.res = "fail" /\ ret.val # MsgBroken)
        => ("take_last_error" \in ret.native <=> ret.cause \notin {"raise", "badret"})

\* C25: the stack is balanced on success.  A native write/end that succeeds
\* finds the calling stack at the depth recorded before the call (the
\* assertion of return_self_or_stack_error); a dispatch leaves exactly one
\* value behind when the handler raised or returned an invalid directive and
\* nothing otherwise; a sink invocation that returns leaves every stack as it
\* found it.
C25_BalancedOnSuccess ==
    /\ [][(stack # << >> /\ Top.type = "native" /\ NativeReturn(0, lastError))
            => Top.errs = << >>]_vars
    /\ [](ret.op = "dispatch"
            => ret.left = IF ret.cause = "raised" \/ InvalidRet(ret.arg) THEN 1 ELSE 0)
    /\ [][SinkReturn => \A j \in 1..Len(stack') : stack'[j].errs = stack[j].errs]_vars

\* C26: no re-entrant teardown.  While a native write/end on a session's
\* engine is in progress the engine is not freed and no second native
\* write/end is started on the same engine.
C26_NoReentrantTeardown ==
    \A j \in 1..Len(stack) :
        stack[j].type = "native" =>
            /\ rewriter[stack[j].s] = "live"
            /\ freed[stack[j].s] = 0
            /\ \A k \in 1..Len(stack) :
                  (stack[k].type = "native" /\ stack[k].s = stack[j].s) => k = j

\* C27: the entries of a handler table are checked for callability when they
\* are registered: an entry that is present is either turned into a handler
\* or reported as an error by the registration call, which then registers
\* nothing; it is never silently dropped.
C27_EntriesValidated ==
    \A i \in 1..Len(regs) : \A f \in DOMAIN regs[i].table :
        regs[i].table[f] # Nil => ~regs[i].args[f].null

\* C23: registry resolution never misses during dispatch.  Whatever the
\* collector has freed, every handler that is fired was looked up to the
\* builder it was registered on and to the function that was registered, and
\* every sink invocation to the session being written and to its sink; no
\* lookup crashes or comes back with anything else.
C23_RegistryResolves ==
    /\ \A j \in 1..Len(stack) :
          /\ stack[j].type # "crash"
          /\ stack[j].type = "handler" =>
                /\ stack[j].ud = regs[stack[j].reg].b
                /\ stack[j].callee = regs[stack[j].reg].table[stack[j].field]
    /\ \A k \in 1..Len(sunk) :
          sunk[k].ud = sunk[k].s /\ sunk[k].callee = sSink[sunk[k].s]

\* a builder, session or selector the host program can still reach
Alive(o) == Made(o) /\ o \in Reach

\* C24: what the native side refers to is anchored.  While a builder is
\* alive, no selector that was added to it has been finalized or queued for
\* finalization, and every callback and handler-data record registered on it
\* lies in its uservalue table; while a session is alive the builder it was
\* built from has not been finalized; a selector is freed at most once, by its
\* own finalization, however many builders it was added to.
C24_Anchored ==
    /\ \A i \in 1..Len(regs) :
          Alive(regs[i].b) =>
             /\ regs[i].scope = "elem" =>
                   /\ ~Finalized(regs[i].sel)
                   /\ \A k \in 1..Len(tobefnz) : tobefnz[k] # regs[i].sel
             /\ \A f \in DOMAIN regs[i].args :
                   ~regs[i].args[f].null =>
                      LET k == regs[i].args[f].callback_index
                      IN /\ k + 1 <= Len(uv[regs[i].b])
                         /\ uv[regs[i].b][k] = [what |-> "callback", val |-> regs[i].table[f]]
                         /\ uv[regs[i].b][k + 1].what = "handler_data"
    /\ \A s \in DOMAIN rewriter :
          Alive(s) => /\ bstate[sBuilder[s]] = "alive"
                      /\ \A k \in 1..Len(tobefnz) : tobefnz[k] # sBuilder[s]
    /\ \A sel \in DOMAIN sels :
          /\ sels[sel].frees <= 1
          /\ sels[sel].collected <=> sels[sel].frees = 1

\* the host has dropped a builder and the selector added to it, a session
\* built from the builder keeps both, and the collector has finalized
\* something else
C24_Witness ==
    \E i \in 1..Len(regs) :
        /\ regs[i].scope = "elem"
        /\ regs[i].b \notin held
        /\ regs[i].sel \notin held
        /\ Alive(regs[i].b)
        /\ \E o \in Objects : Finalized(o)

====
